---- MODULE Spec2Model ----
(***************************************************************************)
(* The wallet reconciliation and alerting engine of the Saros DLMM         *)
(* Telegram bot: the wallet registry, the per-owner polling state, the     *)
(* faucet handler (request_tokens) with its retry and endpoint failover,   *)
(* and the 5-minute polling callback.  Every handler is an async function  *)
(* on one event loop: a step of the model is the code that runs between    *)
(* two awaits, so the interleavings of the model are those of the awaits.  *)
(***************************************************************************)
EXTENDS Integers, Sequences, FiniteSets, TLC

(***************************************************************************)
(* Bounds of the model                                                     *)
(***************************************************************************)
MaxClockSteps == 2
MaxFaucetRequests == 2
MaxTimerFires == 2
MaxRaceTimerFires == 1

(***************************************************************************)
(* Program constants                                                       *)
(***************************************************************************)
hourlyLimitSeconds == 3600
retries == 3
delayMs == 2000
secretKeyLength == 64
importTextLength == 80
PollAttemptsFour == 2 + 2
PollAttempts == 3
PollDelayMs == 2000
LamportsPerSol == 1000000000

(***************************************************************************)
(* Value domains                                                           *)
(***************************************************************************)
Owners == {1, 2}
Keys == {"k1", "k2"}
NoKeypair == "none"

\* keypair.publicKey.toString() and bs58.encode(keypair.secretKey): two texts of
\* one keypair, different keypairs having different texts.
PublicKeyText == [k \in Keys |-> IF k = "k1" THEN "pub1" ELSE "pub2"]
SecretKeyText == [k \in Keys |-> IF k = "k1" THEN "sec1" ELSE "sec2"]

\* wallets[userId] and ctx.session.wallet when they are undefined.
NoWallet == [publicKey |-> "none", privateKey |-> "none"]
NoState == [absent |-> TRUE]
Undefined == -1

\* Date.now() at the first step (an instant more than one hour after the
\* epoch of the clock), and the time that passes in one step of the clock (half
\* the hour of the faucet limit).
Epoch == 2 * 3600 * 1000
ClockStep == 1800 * 1000

\* The handlers and the callbacks that may be in flight at the same time.
ReqIds == {1, 2}
TickIds == {1, 2}

MockPosition ==
  [pool |-> "mockPoolAddress", lowerBin |-> 100, upperBin |-> 200,
   liquidity |-> 1000, feesEarned |-> 10]

\* What the remote services may answer.
Balances == {0, 2 * LamportsPerSol}
PositionLists == {<<MockPosition>>}
SignatureLists == {<<>>, <<"sigA">>}
AirdropOutcomes == {"ok", "neterr", "txerr"}

\* The text messages a user may send: the number of characters, whether the
\* text starts with "dev" or with "/", whether it is base58, the number of
\* bytes it decodes to, the key these bytes are (if they are a keypair).
Text(n, d, sl, b58, len, k) ==
  [chars |-> n, dev |-> d, slash |-> sl, base58 |-> b58, bytes |-> len, key |-> k]

\* The 88 characters of a 64-byte secret key.
KeyText(k) == Text(88, FALSE, FALSE, TRUE, 64, k)

Texts ==
  {KeyText(k) : k \in Keys} \cup
  {Text(90, FALSE, FALSE, TRUE, 64, "k1"),        \* a key with a space before and after
   Text(88, FALSE, FALSE, TRUE, 64, NoKeypair),   \* 64 bytes that are no keypair
   Text(44, FALSE, FALSE, TRUE, 32, NoKeypair),   \* a 32-byte key
   Text(44, TRUE, FALSE, TRUE, 32, NoKeypair),    \* 32 bytes, the text starting with "dev"
   Text(86, FALSE, FALSE, TRUE, 63, NoKeypair),   \* 63 bytes
   Text(90, FALSE, FALSE, FALSE, 0, NoKeypair),   \* a long text that is not base58
   Text(10, FALSE, TRUE, FALSE, 0, NoKeypair),    \* a command
   Text(5, FALSE, FALSE, FALSE, 0, NoKeypair)}    \* a short message, not base58

\* What the remote services may answer where the change detection is examined:
\* balances (in lamports) around one ten-thousandth of a SOL, none of them half
\* way between two, and one that is not zero and rounds to zero; positions that differ in one field each; signature lists
\* that differ in content and in order.
DetectBalances == {0, 40000, 1000040000, 1000090000, 1000041000, 1000044000}

OtherFees == [MockPosition EXCEPT !.feesEarned = 20]
OtherLowerBin == [MockPosition EXCEPT !.lowerBin = 101]
OtherLiquidity == [MockPosition EXCEPT !.liquidity = 2000]
OtherPool == [MockPosition EXCEPT !.pool = "otherPoolAddress"]

DetectPositionLists ==
  {<<>>, <<MockPosition>>, <<OtherFees>>, <<OtherLowerBin>>, <<OtherLiquidity>>,
   <<MockPosition, OtherPool>>, <<OtherPool, MockPosition>>}

DetectSignatureLists ==
  {<<>>, <<"a", "b", "c">>, <<"d", "a", "b">>, <<"c", "b", "a">>, <<"a", "b">>}
FetchOutcomes == {"ok", "err"}

VARIABLES
  wallets,        \* wallets: Record<number, WalletData>
  sessionWallet,  \* ctx.session.wallet of each user
  waitingForWalletImport,  \* ctx.session.waitingForWalletImport of each user
  states,         \* states: Record<number, UserState>
  clock,          \* Date.now(), in ms
  reqs,           \* the request_tokens handlers in flight
  ticks,          \* the polling callbacks in flight
  started,        \* number of request_tokens handlers started so far
  fired,          \* number of times the interval timer fired so far
  stopped,        \* bot.stop has been called
  dlmm,           \* dlmmService.dlmm is set (not null)
  airdrops,       \* history: per owner, the request times of the successful airdrops
  cycles,         \* history: per owner, the snapshot the last completed cycle stored
  ev              \* history: the outcome the last step reported, if any

vars ==
  <<wallets, sessionWallet, waitingForWalletImport, states, clock, reqs, ticks,
    started, fired, stopped, dlmm, airdrops, cycles, ev>>

(***************************************************************************)
(* Helpers                                                                 *)
(***************************************************************************)
\* The outcome a step reports: how a request_tokens handler ended, or how the
\* polling callback ended its work on one owner (for an update, with the
\* snapshot the fetched values were compared with).  Every other step reports
\* none.  A rate-limited request is reported with the minutes of its reply.
NoEvent ==
  [kind |-> "none", owner |-> 0, id |-> 0, sent |-> 0, sig |-> <<>>, err |-> "",
   old |-> <<>>, minutes |-> 0]

Event(k, o, i) ==
  [kind |-> k, owner |-> o, id |-> i, sent |-> 0, sig |-> <<>>, err |-> "",
   old |-> <<>>, minutes |-> 0]

RECURSIVE SortedSeq(_)
SortedSeq(S) ==
  IF S = {} THEN <<>>
  ELSE LET m == CHOOSE x \in S : \A y \in S : x <= y
       IN <<m>> \o SortedSeq(S \ {m})

\* Object.entries(wallets): the registered owners, integer keys ascending.
WalletEntries(w) == SortedSeq({o \in Owners : w[o] # NoWallet})

\* The UserState the faucet handler creates for an owner that has none.
FaucetInitialState ==
  [lastBalance |-> 0, lastPositions |-> <<>>, lastSignatures |-> <<>>,
   lastFaucetTime |-> 0]

\* A variant of PollInitialState with a balance of one SOL.
PollInitialStateOneSol ==
  [lastBalance |-> LamportsPerSol, lastPositions |-> <<>>, lastSignatures |-> <<>>,
   lastFaucetTime |-> Undefined]

\* The UserState the polling callback creates for an owner that has none.
PollInitialState ==
  [lastBalance |-> 0, lastPositions |-> <<>>, lastSignatures |-> <<>>,
   lastFaucetTime |-> Undefined]

\* state.lastFaucetTime || 0
LastFaucetOrZero(state) ==
  IF state.lastFaucetTime = Undefined THEN 0 ELSE state.lastFaucetTime

\* timeSinceLastFaucet < hourlyLimitSeconds, with (now - last) / 1000 a float
RateLimited(state, now) ==
  (now - LastFaucetOrZero(state)) < hourlyLimitSeconds * 1000

\* A variant of RemainingTime with Math.floor.
RemainingTimeFloor(state, now) ==
  (hourlyLimitSeconds * 1000 - (now - LastFaucetOrZero(state))) \div 60000

\* Math.ceil((hourlyLimitSeconds - timeSinceLastFaucet) / 60), with
\* timeSinceLastFaucet = (now - last) / 1000.  The quotient is an integer only
\* when now - last is a multiple of 60000 ms, and then both divisions are
\* exact in doubles; otherwise it is at least 1/60000 away from an integer, far
\* more than the rounding of the two divisions, so that the ceiling is that of
\* the exact quotient (3600000 - (now - last)) / 60000.
RemainingTime(state, now) ==
  -((-(hourlyLimitSeconds * 1000 - (now - LastFaucetOrZero(state)))) \div 60000)

\* A variant of ToFixed4 that cuts the digits after the fourth.
ToFixed4Truncates(lamports) == lamports \div 100000

\* Number.prototype.toFixed(4) of lamports / 1e9, as an integer number of 1e-4
\* SOL.  toFixed rounds the exact value of the double to the nearest; for a
\* number of lamports that is not half way between two ten-thousandths of a SOL
\* that is the nearest to lamports / 1e9.
ToFixed4(lamports) == (lamports + 50000) \div 100000

\* A variant of Projection that keeps the fees.
ProjectionWithFees(positions) ==
  [i \in 1..Len(positions) |->
     [p |-> positions[i].pool, l |-> positions[i].lowerBin,
      u |-> positions[i].upperBin, liq |-> positions[i].liquidity,
      fees |-> positions[i].feesEarned]]

\* p => ({ p: p.pool, l: p.lowerBin, u: p.upperBin, liq: p.liquidity }), the
\* objects that JSON.stringify turns into the text that is compared: the text
\* of two lists is the same exactly when the lists of objects are.
Projection(positions) ==
  [i \in 1..Len(positions) |->
     [p |-> positions[i].pool, l |-> positions[i].lowerBin,
      u |-> positions[i].upperBin, liq |-> positions[i].liquidity]]

SeqRange(s) == {s[i] : i \in 1..Len(s)}

\* A variant of AlertLines with no line for new signatures.
AlertLinesWithoutSignatures(state, currentBalance, currentPositions, currentSignatures) ==
  (IF ToFixed4(currentBalance) # ToFixed4(state.lastBalance)
     THEN <<"balance">> ELSE <<>>)
  \o (IF Projection(currentPositions) # Projection(state.lastPositions)
        THEN <<"positions">> ELSE <<>>)

\* A variant of AlertLines with a line for signatures whenever any is fetched.
AlertLinesEverySignature(state, currentBalance, currentPositions, currentSignatures) ==
  (IF ToFixed4(currentBalance) # ToFixed4(state.lastBalance)
     THEN <<"balance">> ELSE <<>>)
  \o (IF Projection(currentPositions) # Projection(state.lastPositions)
        THEN <<"positions">> ELSE <<>>)
  \o (IF currentSignatures # <<>> THEN <<"signatures">> ELSE <<>>)

\* A variant of AlertLines that compares the signature lists as they are.
AlertLinesOrderedSignatures(state, currentBalance, currentPositions, currentSignatures) ==
  (IF ToFixed4(currentBalance) # ToFixed4(state.lastBalance)
     THEN <<"balance">> ELSE <<>>)
  \o (IF Projection(currentPositions) # Projection(state.lastPositions)
        THEN <<"positions">> ELSE <<>>)
  \o (IF currentSignatures # state.lastSignatures THEN <<"signatures">> ELSE <<>>)

\* The alert text of the polling callback, as the list of its lines.
AlertLines(state, currentBalance, currentPositions, currentSignatures) ==
  (IF ToFixed4(currentBalance) # ToFixed4(state.lastBalance)
     THEN <<"balance">> ELSE <<>>)
  \o (IF Projection(currentPositions) # Projection(state.lastPositions)
        THEN <<"positions">> ELSE <<>>)
  \o (IF \E s \in SeqRange(currentSignatures) : s \notin SeqRange(state.lastSignatures)
        THEN <<"signatures">> ELSE <<>>)

\* states[userId] = { ...state, lastFaucetTime: now }
FaucetWrite(state, now) == [state EXCEPT !.lastFaucetTime = now]

\* A variant of PollWrite that leaves lastSignatures as it was.
PollWriteKeepsSignatures(state, currentBalance, currentPositions, currentSignatures) ==
  [state EXCEPT !.lastBalance = currentBalance,
                !.lastPositions = currentPositions]

\* states[userId] = { ...state, lastBalance, lastPositions, lastSignatures }
PollWrite(state, currentBalance, currentPositions, currentSignatures) ==
  [state EXCEPT !.lastBalance = currentBalance,
                !.lastPositions = currentPositions,
                !.lastSignatures = currentSignatures]

\* The balance, the positions and the signatures of a stored state.
Snapshot(state) == <<state.lastBalance, state.lastPositions, state.lastSignatures>>

\* History: the step in which a cycle ends with its update records the
\* snapshot that the update has stored for the owner.
RecordCycle ==
  cycles' = IF ev'.kind = "cycle_updated"
              THEN [cycles EXCEPT ![ev'.owner] = Snapshot(states'[ev'.owner])]
              ELSE cycles

\* The RPC endpoint that the call of a step of the polling callback goes to:
\* getBalance and getSignaturesForAddress are calls on connection, the
\* connection to RPC_URL; dlmmService and bot.telegram use no RPC endpoint.
PollEndpoint(pc) == IF pc \in {"bal", "sig"} THEN "primary" ELSE "none"

\* wait: the delay of the timer a handler or a callback sleeps on before its
\* next attempt, 0 when it does not sleep.
IdleReq ==
  [pc |-> "idle", owner |-> 0, state |-> NoState, now |-> 0, attempt |-> 0,
   calls |-> <<>>, wait |-> 0]

IdleTick ==
  [pc |-> "idle", owners |-> <<>>, idx |-> 0, attempt |-> 0, state |-> NoState,
   balance |-> 0, positions |-> <<>>, signatures |-> <<>>, alert |-> <<>>,
   sent |-> 0, wait |-> 0, endpoint |-> "none"]

\* The slot a new handler or callback runs in.
FreeSlot(procs) ==
  CHOOSE i \in DOMAIN procs :
    /\ procs[i].pc = "idle"
    /\ \A j \in DOMAIN procs : procs[j].pc = "idle" => i <= j

(***************************************************************************)
(* Initial state: the process has just started                             *)
(***************************************************************************)
Init ==
  /\ wallets = [o \in Owners |-> NoWallet]
  /\ sessionWallet = [o \in Owners |-> NoWallet]
  /\ waitingForWalletImport = [o \in Owners |-> FALSE]
  /\ states = [o \in Owners |-> NoState]
  /\ clock = Epoch
  /\ reqs = [r \in ReqIds |-> IdleReq]
  /\ ticks = [t \in TickIds |-> IdleTick]
  /\ started = 0
  /\ fired = 0
  /\ stopped = FALSE
  /\ dlmm = FALSE
  /\ airdrops = [o \in Owners |-> <<>>]
  /\ cycles = [o \in Owners |-> <<>>]
  /\ ev = NoEvent

(***************************************************************************)
(* Time passes                                                             *)
(***************************************************************************)
ClockAdvance ==
  /\ clock < Epoch + MaxClockSteps * ClockStep
  /\ clock' = clock + ClockStep
  /\ ev' = NoEvent
  /\ UNCHANGED <<wallets, sessionWallet, states, reqs, ticks, started, fired, airdrops,
               waitingForWalletImport, stopped, cycles, dlmm>>

(***************************************************************************)
(* bot.action('create_wallet')                                             *)
(***************************************************************************)
\* The wallet loading middleware: restore the session wallet from the registry.
LoadWallet(o) ==
  IF wallets[o] # NoWallet /\ sessionWallet[o] = NoWallet
    THEN wallets[o] ELSE sessionWallet[o]

\* A variant of GeneratedWallet that writes the new public key into the record
\* the session has.
GeneratedWalletMerged(old, k) ==
  IF old = NoWallet
    THEN [publicKey |-> PublicKeyText[k], privateKey |-> SecretKeyText[k]]
    ELSE [old EXCEPT !.publicKey = PublicKeyText[k]]

\* { publicKey, privateKey: privateKeyBase58 } of the keypair generated: a new
\* object, whatever the session had.
GeneratedWallet(old, k) ==
  [publicKey |-> PublicKeyText[k], privateKey |-> SecretKeyText[k]]

\* A variant of CreateWallet that gives the owner a fresh state with the new
\* wallet.
CreateWalletResetsState(o, k) ==
  /\ ~stopped
  /\ sessionWallet' = [sessionWallet EXCEPT ![o] = GeneratedWallet(LoadWallet(o), k)]
  /\ wallets' = [wallets EXCEPT ![o] = sessionWallet'[o]]
  /\ states' = [states EXCEPT ![o] = NoState]
  /\ ev' = NoEvent
  /\ UNCHANGED <<clock, reqs, ticks, started, fired, airdrops,
               waitingForWalletImport, stopped, cycles, dlmm>>

CreateWallet(o, k) ==
  /\ ~stopped
  /\ sessionWallet' = [sessionWallet EXCEPT ![o] = GeneratedWallet(LoadWallet(o), k)]
  /\ wallets' = [wallets EXCEPT ![o] = sessionWallet'[o]]
  /\ ev' = NoEvent
  /\ UNCHANGED <<states, clock, reqs, ticks, started, fired, airdrops,
               waitingForWalletImport, stopped, cycles, dlmm>>

(***************************************************************************)
(* bot.action('import_wallet') and bot.on('text')                          *)
(***************************************************************************)
ImportWallet(o) ==
  /\ ~stopped
  /\ waitingForWalletImport' = [waitingForWalletImport EXCEPT ![o] = TRUE]
  /\ sessionWallet' = [sessionWallet EXCEPT ![o] = LoadWallet(o)]
  /\ ev' = NoEvent
  /\ UNCHANGED <<wallets, states, clock, reqs, ticks, started, fired, airdrops,
               stopped, cycles, dlmm>>

\* A variant of TakenAsImport that does not look at the flag of the session.
TakenAsImportUnflagged(o, text) ==
  text.dev \/ text.chars > importTextLength

\* waitingForWalletImport && (text.startsWith('dev') || text.length > 80)
TakenAsImport(o, text) ==
  /\ waitingForWalletImport[o]
  /\ (text.dev \/ text.chars > importTextLength)

\* What the try of the import throws before it stores anything, if it does:
\* bs58.decode, the check of the length, Keypair.fromSecretKey.
ImportError(text) ==
  IF ~text.base58 THEN "decode"
  ELSE IF text.bytes # secretKeyLength THEN "length"
  ELSE IF text.key = NoKeypair THEN "keypair"
  ELSE ""

\* A variant of ImportedWallet that keeps the text as it was sent, with the
\* space around it.
ImportedWalletUntrimmed(text) ==
  [publicKey |-> PublicKeyText[text.key],
   privateKey |-> IF text.chars > 88 THEN "padded" ELSE SecretKeyText[text.key]]

\* A variant of ImportedWallet that leaves the owner without a wallet.
ImportedWalletCleared(text) == NoWallet

\* { publicKey, privateKey: privateKeyBase58 } of the import: the public key of
\* the keypair the bytes are, and the text itself without the space around it,
\* the base58 text of the secret key of that keypair.
ImportedWallet(text) ==
  [publicKey |-> PublicKeyText[text.key], privateKey |-> SecretKeyText[text.key]]

\* The text handler: an import stores the wallet and then asks for its balance
\* to reply (outcome: how that call ends); nothing is read or written after
\* that call, and the step stands for the handler with its reply.  The reply
\* to an import that stored a wallet is reported with the record that the
\* registry had before.
TextMessage(o, text, outcome) ==
  LET loaded == LoadWallet(o)
      reply(k, e) == [Event(k, o, 0) EXCEPT !.err = e, !.old = <<wallets[o]>>]
  IN /\ ~stopped
     /\ IF TakenAsImport(o, text)
          THEN IF ImportError(text) # ""
                 THEN /\ ev' = reply("import_error", ImportError(text))
                      /\ sessionWallet' = [sessionWallet EXCEPT ![o] = loaded]
                      /\ UNCHANGED <<wallets, waitingForWalletImport>>
                 ELSE /\ sessionWallet' = [sessionWallet EXCEPT ![o] = ImportedWallet(text)]
                      /\ wallets' = [wallets EXCEPT ![o] = sessionWallet'[o]]
                      /\ waitingForWalletImport' =
                           [waitingForWalletImport EXCEPT ![o] = FALSE]
                      /\ ev' = IF outcome = "ok" THEN reply("import_ok", "")
                               ELSE reply("import_error", "balance")
          ELSE /\ ev' = IF text.slash /\ loaded = NoWallet
                          THEN reply("wallet_missing", "")
                          ELSE reply("text_unanswered", "")
               /\ sessionWallet' = [sessionWallet EXCEPT ![o] = loaded]
               /\ UNCHANGED <<wallets, waitingForWalletImport>>
     /\ UNCHANGED <<states, clock, reqs, ticks, started, fired, airdrops,
                  stopped, cycles, dlmm>>

(***************************************************************************)
(* bot.start and the other bot.action handlers                             *)
(***************************************************************************)
\* The handlers that read the wallet of the session, call dlmmService or the
\* connection (none of which has the registry or the states), and reply.
Handlers ==
  {"start", "positions", "add_liquidity", "add_liquidity_mock",
   "remove_liquidity", "rebalance", "wallet_overview", "pools", "menu"}

\* The handlers that answer a session without a wallet with replyWalletMissing.
WalletHandlers ==
  {"positions", "add_liquidity", "add_liquidity_mock", "remove_liquidity",
   "rebalance", "wallet_overview"}

\* The handlers that await a call of dlmmService or of the connection.
RemoteHandlers == {"positions", "add_liquidity_mock", "rebalance", "wallet_overview"}

\* The handlers that call dlmmService.init before their first call of the
\* service: positions, rebalance and wallet_overview, through getPositions,
\* getRebalanceSuggestion and getWalletOverview.
InitHandlers == {"positions", "rebalance", "wallet_overview"}

\* DlmmService.init: this.dlmm = MockDLMM, whatever it was.
DlmmInit(initialised) == TRUE

NotInitialized == "DLMM not initialized"

\* A variant of DlmmCall without the test of this.dlmm.
DlmmCallUnchecked(initialised, outcome) ==
  IF outcome = "err" THEN "failed" ELSE ""

\* DlmmService.getPositions, addLiquidity and removeLiquidity: what the call
\* throws, "" when it returns (outcome: how the call of the SDK ends).
DlmmCall(initialised, outcome) ==
  IF ~initialised THEN NotInitialized
  ELSE IF outcome = "err" THEN "failed"
  ELSE ""

\* What the try of a handler catches, "" when nothing is thrown.
HandlerError(h, initialised, outcome) ==
  IF h = "add_liquidity_mock" THEN DlmmCall(initialised, outcome)
  ELSE IF h \in InitHandlers THEN DlmmCall(DlmmInit(initialised), outcome)
  ELSE ""

\* A variant of Handler that creates the state of an owner that has none, as
\* request_tokens does.
HandlerStoresDefault(o, h, outcome) ==
  LET loaded == LoadWallet(o)
      error == HandlerError(h, dlmm, outcome)
      kind == IF h \in WalletHandlers /\ loaded = NoWallet THEN "wallet_missing"
              ELSE IF error # "" THEN "handler_error"
              ELSE "handler_ok"
  IN /\ ~stopped
     /\ sessionWallet' = [sessionWallet EXCEPT ![o] = loaded]
     /\ states' = [states EXCEPT ![o] = IF @ = NoState THEN FaucetInitialState ELSE @]
     /\ dlmm' = IF h \in InitHandlers /\ kind # "wallet_missing"
                  THEN DlmmInit(dlmm) ELSE dlmm
     /\ ev' = [Event(kind, o, 0) EXCEPT
                !.err = IF kind = "handler_error" THEN error ELSE ""]
     /\ UNCHANGED <<wallets, waitingForWalletImport, clock, reqs, ticks,
                  started, fired, stopped, airdrops, cycles>>

\* One of these handlers, from the update to its reply (outcome: how its
\* remote calls end, if it makes any).
Handler(o, h, outcome) ==
  LET loaded == LoadWallet(o)
      error == HandlerError(h, dlmm, outcome)
      kind == IF h \in WalletHandlers /\ loaded = NoWallet THEN "wallet_missing"
              ELSE IF error # "" THEN "handler_error"
              ELSE "handler_ok"
  IN /\ ~stopped
     /\ sessionWallet' = [sessionWallet EXCEPT ![o] = loaded]
     /\ dlmm' = IF h \in InitHandlers /\ kind # "wallet_missing"
                  THEN DlmmInit(dlmm) ELSE dlmm
     /\ ev' = [Event(kind, o, 0) EXCEPT
                !.err = IF kind = "handler_error" THEN error ELSE ""]
     /\ UNCHANGED <<wallets, waitingForWalletImport, states, clock, reqs, ticks,
                  started, fired, stopped, airdrops, cycles>>

(***************************************************************************)
(* process.on('SIGINT') and process.on('SIGTERM')                          *)
(***************************************************************************)
\* bot.stop: no update is fetched from now on.  The handlers and the callback
\* in flight go on, and nothing clears the interval timer.
Signal ==
  /\ stopped' = TRUE
  /\ ev' = NoEvent
  /\ UNCHANGED <<wallets, sessionWallet, waitingForWalletImport, states, clock,
                reqs, ticks, started, fired, airdrops, cycles, dlmm>>

(***************************************************************************)
(* bot.action('request_tokens')                                            *)
(***************************************************************************)

\* A variant of FaucetStart that creates the state of the owner before it
\* looks for the wallet of the session.
FaucetStartStateFirst(o, limit) ==
  /\ ~stopped
  /\ started < limit
  /\ \E r \in ReqIds : reqs[r].pc = "idle"
  /\ started' = started + 1
  /\ sessionWallet' = [sessionWallet EXCEPT ![o] = LoadWallet(o)]
  /\ LET r == FreeSlot(reqs)
         init == IF states[o] = NoState THEN FaucetInitialState ELSE states[o]
     IN /\ states' = [states EXCEPT ![o] = init]
        /\ IF LoadWallet(o) = NoWallet
             THEN /\ ev' = Event("faucet_nowallet", o, r)
                  /\ UNCHANGED reqs
             ELSE IF RateLimited(init, clock)
                    THEN /\ ev' = [Event("faucet_limited", o, r) EXCEPT
                                      !.minutes = RemainingTime(init, clock)]
                         /\ UNCHANGED reqs
                    ELSE /\ ev' = NoEvent
                         /\ reqs' = [reqs EXCEPT ![r] =
                               [pc |-> "primary", owner |-> o, state |-> init,
                                now |-> clock, attempt |-> 1, calls |-> <<>>,
                                wait |-> 0]]
  /\ UNCHANGED <<wallets, clock, ticks, fired, airdrops, waitingForWalletImport,
               stopped, cycles, dlmm>>

\* From the button click to the first airdrop call (or to an early return).
FaucetStart(o, limit) ==
  /\ ~stopped
  /\ started < limit
  /\ \E r \in ReqIds : reqs[r].pc = "idle"
  /\ started' = started + 1
  /\ sessionWallet' = [sessionWallet EXCEPT ![o] = LoadWallet(o)]
  /\ LET r == FreeSlot(reqs)
         init == IF states[o] = NoState THEN FaucetInitialState ELSE states[o]
     IN IF LoadWallet(o) = NoWallet
          THEN /\ ev' = Event("faucet_nowallet", o, r)
               /\ UNCHANGED <<states, reqs>>
          ELSE /\ states' = [states EXCEPT ![o] = init]
               /\ IF RateLimited(init, clock)
                    THEN /\ ev' = [Event("faucet_limited", o, r) EXCEPT
                                      !.minutes = RemainingTime(init, clock)]
                         /\ UNCHANGED reqs
                    ELSE /\ ev' = NoEvent
                         /\ reqs' = [reqs EXCEPT ![r] =
                               [pc |-> "primary", owner |-> o, state |-> init,
                                now |-> clock, attempt |-> 1, calls |-> <<>>,
                                wait |-> 0]]
  /\ UNCHANGED <<wallets, clock, ticks, fired, airdrops, waitingForWalletImport,
               stopped, cycles, dlmm>>

\* A variant of AfterFailedAttempt that turns to the fallback at the first
\* failure of the primary.
AfterFailedAttemptEarlyFailover(pc, attempt) ==
  IF pc = "primary" THEN [pc |-> "fallback", attempt |-> 1]
  ELSE IF attempt < retries THEN [pc |-> pc, attempt |-> attempt + 1]
  ELSE [pc |-> "error", attempt |-> 0]

\* A variant of AfterFailedAttempt with one attempt more than the budget.
AfterFailedAttemptExtraTry(pc, attempt) ==
  IF attempt <= retries THEN [pc |-> pc, attempt |-> attempt + 1]
  ELSE IF pc = "primary" THEN [pc |-> "fallback", attempt |-> 1]
  ELSE [pc |-> "error", attempt |-> 0]

\* What follows a failed attempt: the loop of requestAirdropWithRetry tries
\* again while attempts remain and throws the error of the last one; the handler
\* answers a throw of the primary with the fallback, and lets a throw of the
\* fallback reach its own catch.
AfterFailedAttempt(pc, attempt) ==
  IF attempt < retries THEN [pc |-> pc, attempt |-> attempt + 1]
  ELSE IF pc = "primary" THEN [pc |-> "fallback", attempt |-> 1]
  ELSE [pc |-> "error", attempt |-> 0]

\* A variant of Backoff with the same delay after every attempt.
BackoffFixed(attempt) == delayMs

\* delayMs * Math.pow(2, attempt - 1)
Backoff(attempt) == delayMs * 2 ^ (attempt - 1)

\* The sleep of requestAirdropWithRetry after a failed attempt: none after the
\* last one, which throws.
WaitAfterFailedAttempt(attempt) ==
  IF attempt < retries THEN Backoff(attempt) ELSE 0

\* A variant of StateAfterFaucetError in which the failed request counts as one.
StateAfterFaucetErrorConsumes(stored, state, now) == FaucetWrite(state, now)

\* The catch of the handler: it replies, and stores nothing.
StateAfterFaucetError(stored, state, now) == stored

\* One attempt of requestAirdropWithRetry (requestAirdrop, confirmTransaction)
\* and what follows its result up to the next await.
AirdropAttempt(r, outcome) ==
  /\ reqs[r].pc \in {"primary", "fallback"}
  /\ LET q == reqs[r]
         o == q.owner
         calls == Append(q.calls, q.pc)
         next == AfterFailedAttempt(q.pc, q.attempt)
     IN IF outcome = "ok"
          THEN /\ states' = [states EXCEPT ![o] = FaucetWrite(q.state, q.now)]
               /\ airdrops' = [airdrops EXCEPT ![o] = Append(@, q.now)]
               /\ reqs' = [reqs EXCEPT ![r] = IdleReq]
               /\ ev' = [Event("faucet_ok", o, r) EXCEPT !.sig = <<q.pc, q.attempt>>]
          ELSE IF next.pc = "error"
            THEN /\ states' = [states EXCEPT ![o] =
                                 StateAfterFaucetError(states[o], q.state, q.now)]
                 /\ reqs' = [reqs EXCEPT ![r] = IdleReq]
                 /\ ev' = [Event("faucet_error", o, r) EXCEPT !.err = outcome]
                 /\ UNCHANGED airdrops
            ELSE /\ reqs' = [reqs EXCEPT ![r].pc = next.pc,
                                         ![r].attempt = next.attempt,
                                         ![r].calls = calls,
                                         ![r].wait = WaitAfterFailedAttempt(q.attempt)]
                 /\ ev' = NoEvent
                 /\ UNCHANGED <<states, airdrops>>
  /\ UNCHANGED <<wallets, sessionWallet, clock, ticks, started, fired,
               waitingForWalletImport, stopped, cycles, dlmm>>

(***************************************************************************)
(* The polling callback of setInterval                                     *)
(***************************************************************************)
\* The head of one iteration of the loop over Object.entries(wallets), up to
\* the first getBalance call: tick record and states after it.  With no owner
\* left the callback returns.
BeginOwner(tk, st, i) ==
  IF i > Len(tk.owners)
    THEN [tick |-> IdleTick, states |-> st]
    ELSE LET o == tk.owners[i]
             state == IF st[o] = NoState THEN PollInitialState ELSE st[o]
         IN [tick |-> [pc |-> "bal", owners |-> tk.owners, idx |-> i,
                       attempt |-> 0, state |-> state,
                       balance |-> state.lastBalance,
                       positions |-> state.lastPositions,
                       signatures |-> state.lastSignatures, alert |-> <<>>,
                       sent |-> 0, wait |-> 0, endpoint |-> PollEndpoint("bal")],
             states |-> [st EXCEPT ![o] = state]]

\* The interval timer fires: a new run of the callback starts.
TimerFire(limit) ==
  /\ fired < limit
  /\ \E t \in TickIds : ticks[t].pc = "idle"
  /\ fired' = fired + 1
  /\ LET t == FreeSlot(ticks)
         b == BeginOwner([IdleTick EXCEPT !.owners = WalletEntries(wallets)], states, 1)
     IN /\ ticks' = [ticks EXCEPT ![t] = b.tick]
        /\ states' = b.states
        /\ ev' = NoEvent
  /\ UNCHANGED <<wallets, sessionWallet, clock, reqs, started, airdrops,
               waitingForWalletImport, stopped, cycles, dlmm>>

\* A variant of PollCatch in which the error ends the callback.
PollCatchAborts(t, kind) ==
  /\ ticks' = [ticks EXCEPT ![t] = IdleTick]
  /\ states' = states
  /\ ev' = [Event(kind, ticks[t].owners[ticks[t].idx], t) EXCEPT !.sent = ticks[t].sent]

\* A variant of PollCatch that stores what was fetched before the error.
PollCatchStores(t, kind) ==
  LET tk == ticks[t]
      o == tk.owners[tk.idx]
      written == [states EXCEPT ![o] =
                    PollWrite(tk.state, tk.balance, tk.positions, tk.signatures)]
      b == BeginOwner(tk, written, tk.idx + 1)
  IN /\ ticks' = [ticks EXCEPT ![t] = b.tick]
     /\ states' = b.states
     /\ ev' = [Event(kind, o, t) EXCEPT !.sent = tk.sent]

\* A variant of PollCatch that passes over the owner that follows.
PollCatchSkipsNext(t, kind) ==
  LET tk == ticks[t]
      b == BeginOwner(tk, states, tk.idx + 2)
  IN /\ ticks' = [ticks EXCEPT ![t] = b.tick]
     /\ states' = b.states
     /\ ev' = [Event(kind, tk.owners[tk.idx], t) EXCEPT !.sent = tk.sent]

\* The catch of the per-owner try: log, and go on with the next owner.
PollCatch(t, kind) ==
  LET tk == ticks[t]
      b == BeginOwner(tk, states, tk.idx + 1)
  IN /\ ticks' = [ticks EXCEPT ![t] = b.tick]
     /\ states' = b.states
     /\ ev' = [Event(kind, tk.owners[tk.idx], t) EXCEPT !.sent = tk.sent]

\* The end of the try: store the fetched values, and go on with the next owner.
PollUpdate(t, currentSignatures) ==
  LET tk == ticks[t]
      o == tk.owners[tk.idx]
      written == [states EXCEPT ![o] =
                    PollWrite(tk.state, tk.balance, tk.positions, currentSignatures)]
      b == BeginOwner(tk, written, tk.idx + 1)
  IN /\ ticks' = [ticks EXCEPT ![t] = b.tick]
     /\ states' = b.states
     /\ ev' = [Event("cycle_updated", o, t) EXCEPT
                !.sent = tk.sent,
                !.old = <<tk.state.lastBalance, tk.state.lastPositions,
                          tk.state.lastSignatures>>]

\* 1. connection.getBalance, three attempts; when the balance is there,
\* dlmmService.init, which returns at once
PollBalance(t, outcome, b) ==
  /\ ticks[t].pc = "bal"
  /\ IF outcome = "ok"
       THEN /\ ticks' = [ticks EXCEPT ![t].balance = b, ![t].pc = "pos",
                                      ![t].attempt = 0, ![t].wait = 0,
                                      ![t].endpoint = PollEndpoint("pos")]
            /\ ev' = NoEvent
            /\ UNCHANGED states
       ELSE IF ticks[t].attempt = PollAttempts - 1
         THEN PollCatch(t, "balance_failed")
         ELSE /\ ticks' = [ticks EXCEPT ![t].attempt = @ + 1, ![t].wait = PollDelayMs]
              /\ ev' = NoEvent
              /\ UNCHANGED states
  /\ RecordCycle
  /\ dlmm' = IF outcome = "ok" THEN DlmmInit(dlmm) ELSE dlmm
  /\ UNCHANGED <<wallets, sessionWallet, clock, reqs, started, fired, airdrops,
               waitingForWalletImport, stopped>>

\* 2. dlmmService.getPositions, one attempt
PollPositions(t, outcome, p) ==
  /\ ticks[t].pc = "pos"
  /\ IF outcome = "ok"
       THEN /\ ticks' = [ticks EXCEPT ![t].positions = p, ![t].pc = "sig",
                                      ![t].attempt = 0,
                                      ![t].endpoint = PollEndpoint("sig")]
            /\ ev' = NoEvent
            /\ UNCHANGED states
       ELSE PollCatch(t, "positions_failed")
  /\ RecordCycle
  /\ UNCHANGED <<wallets, sessionWallet, clock, reqs, started, fired, airdrops,
               waitingForWalletImport, stopped, dlmm>>

\* A variant of PollSignatures that stores the fetched values as soon as a
\* change is detected, before sendMessage is called.
PollSignaturesStoresFirst(t, outcome, s) ==
  /\ ticks[t].pc = "sig"
  /\ LET tk == ticks[t]
         o == tk.owners[tk.idx]
     IN IF outcome = "ok"
          THEN IF AlertLines(tk.state, tk.balance, tk.positions, s) # <<>>
                 THEN /\ ticks' = [ticks EXCEPT ![t].signatures = s, ![t].pc = "notify",
                                                ![t].sent = tk.sent + 1,
                                                ![t].wait = 0,
                                                ![t].endpoint = PollEndpoint("notify"),
                                                ![t].alert =
                                                  AlertLines(tk.state, tk.balance,
                                                             tk.positions, s)]
                      /\ ev' = NoEvent
                      /\ states' = [states EXCEPT ![o] =
                                      PollWrite(tk.state, tk.balance, tk.positions, s)]
                 ELSE PollUpdate(t, s)
          ELSE IF tk.attempt = PollAttempts - 1
            THEN PollCatch(t, "signatures_failed")
            ELSE /\ ticks' = [ticks EXCEPT ![t].attempt = @ + 1, ![t].wait = PollDelayMs]
                 /\ ev' = NoEvent
                 /\ UNCHANGED states
  /\ RecordCycle
  /\ UNCHANGED <<wallets, sessionWallet, clock, reqs, started, fired, airdrops,
               waitingForWalletImport, stopped, dlmm>>

\* 3. connection.getSignaturesForAddress, three attempts; 4. the alert logic,
\* up to the sendMessage call, or to the update of the state with no alert.
PollSignatures(t, outcome, s) ==
  /\ ticks[t].pc = "sig"
  /\ LET tk == ticks[t]
     IN IF outcome = "ok"
          THEN IF AlertLines(tk.state, tk.balance, tk.positions, s) # <<>>
                 THEN /\ ticks' = [ticks EXCEPT ![t].signatures = s, ![t].pc = "notify",
                                                ![t].sent = tk.sent + 1,
                                                ![t].wait = 0,
                                                ![t].endpoint = PollEndpoint("notify"),
                                                ![t].alert =
                                                  AlertLines(tk.state, tk.balance,
                                                             tk.positions, s)]
                      /\ ev' = NoEvent
                      /\ UNCHANGED states
                 ELSE PollUpdate(t, s)
          ELSE IF tk.attempt = PollAttempts - 1
            THEN PollCatch(t, "signatures_failed")
            ELSE /\ ticks' = [ticks EXCEPT ![t].attempt = @ + 1, ![t].wait = PollDelayMs]
                 /\ ev' = NoEvent
                 /\ UNCHANGED states
  /\ RecordCycle
  /\ UNCHANGED <<wallets, sessionWallet, clock, reqs, started, fired, airdrops,
               waitingForWalletImport, stopped, dlmm>>

\* bot.telegram.sendMessage returns or throws
PollNotify(t, outcome) ==
  /\ ticks[t].pc = "notify"
  /\ IF outcome = "ok"
       THEN PollUpdate(t, ticks[t].signatures)
       ELSE PollCatch(t, "notify_failed")
  /\ RecordCycle
  /\ UNCHANGED <<wallets, sessionWallet, clock, reqs, started, fired, airdrops,
               waitingForWalletImport, stopped, dlmm>>

(***************************************************************************)
(* The system                                                              *)
(***************************************************************************)
PollStep ==
  \/ \E t \in TickIds, outcome \in FetchOutcomes, b \in Balances : PollBalance(t, outcome, b)
  \/ \E t \in TickIds, outcome \in FetchOutcomes, p \in PositionLists : PollPositions(t, outcome, p)
  \/ \E t \in TickIds, outcome \in FetchOutcomes, s \in SignatureLists : PollSignatures(t, outcome, s)
  \/ \E t \in TickIds, outcome \in FetchOutcomes : PollNotify(t, outcome)

\* The whole bot.
Next ==
  \/ ClockAdvance
  \/ \E o \in Owners, k \in Keys : CreateWallet(o, k)
  \/ \E o \in Owners : ImportWallet(o)
  \/ \E o \in Owners, text \in Texts, outcome \in FetchOutcomes :
       TextMessage(o, text, outcome)
  \/ \E o \in Owners : FaucetStart(o, MaxFaucetRequests)
  \/ \E r \in ReqIds, outcome \in AirdropOutcomes : AirdropAttempt(r, outcome)
  \/ TimerFire(MaxTimerFires)
  \/ PollStep
  \/ \E o \in Owners, h \in Handlers, outcome \in FetchOutcomes : Handler(o, h, outcome)
  \/ Signal

Spec == Init /\ [][Next]_vars

\* The wallets: create, import and the text messages of two users.
NextWallet ==
  \/ \E o \in Owners, k \in Keys : CreateWallet(o, k)
  \/ \E o \in Owners : ImportWallet(o)
  \/ \E o \in Owners, text \in Texts, outcome \in FetchOutcomes :
       TextMessage(o, text, outcome)

SpecWallet == Init /\ [][NextWallet]_vars

\* One user: the faucet handlers of that user against each other and against
\* the polling callback.
NextRace ==
  \/ ClockAdvance
  \/ CreateWallet(1, "k1")
  \/ FaucetStart(1, MaxFaucetRequests)
  \/ \E r \in ReqIds, outcome \in AirdropOutcomes : AirdropAttempt(r, outcome)
  \/ TimerFire(MaxRaceTimerFires)
  \/ PollStep

SpecRace == Init /\ [][NextRace]_vars

\* The same, with every airdrop call succeeding.
NextAirdropOk ==
  \/ ClockAdvance
  \/ CreateWallet(1, "k1")
  \/ FaucetStart(1, MaxFaucetRequests)
  \/ \E r \in ReqIds : AirdropAttempt(r, "ok")
  \/ TimerFire(MaxRaceTimerFires)
  \/ PollStep

SpecAirdropOk == Init /\ [][NextAirdropOk]_vars

\* The same, with the faucet handlers of the user one after another: a handler
\* starts only when no other is in flight.
NoRequestInFlight == \A r \in ReqIds : reqs[r].pc = "idle"

NextSerial ==
  \/ ClockAdvance
  \/ CreateWallet(1, "k1")
  \/ NoRequestInFlight /\ FaucetStart(1, MaxFaucetRequests)
  \/ \E r \in ReqIds, outcome \in AirdropOutcomes : AirdropAttempt(r, outcome)
  \/ TimerFire(MaxRaceTimerFires)
  \/ PollStep

SpecSerial == Init /\ [][NextSerial]_vars

\* Two users: the faucet handlers against each other.
NextFaucet ==
  \/ ClockAdvance
  \/ \E o \in Owners : CreateWallet(o, "k1")
  \/ \E o \in Owners : FaucetStart(o, MaxFaucetRequests)
  \/ \E r \in ReqIds, outcome \in AirdropOutcomes : AirdropAttempt(r, outcome)

SpecFaucet == Init /\ [][NextFaucet]_vars

\* The change detection: one user, the runs of the polling callback one after
\* another, every call succeeding, the answers drawn from the wider domains.
NoTickInFlight == \A t \in TickIds : ticks[t].pc = "idle"

NextDetect ==
  \/ CreateWallet(1, "k1")
  \/ NoTickInFlight /\ TimerFire(MaxTimerFires)
  \/ \E t \in TickIds, b \in DetectBalances : PollBalance(t, "ok", b)
  \/ \E t \in TickIds, p \in DetectPositionLists : PollPositions(t, "ok", p)
  \/ \E t \in TickIds, s \in DetectSignatureLists : PollSignatures(t, "ok", s)
  \/ \E t \in TickIds : PollNotify(t, "ok")

SpecDetect == Init /\ [][NextDetect]_vars

\* One user, a faucet handler or a run of the polling callback at a time: the
\* retries of both.
NextRetry ==
  \/ ClockAdvance
  \/ CreateWallet(1, "k1")
  \/ NoRequestInFlight /\ NoTickInFlight /\ FaucetStart(1, MaxFaucetRequests)
  \/ \E r \in ReqIds, outcome \in AirdropOutcomes : AirdropAttempt(r, outcome)
  \/ NoRequestInFlight /\ NoTickInFlight /\ TimerFire(MaxTimerFires)
  \/ PollStep

SpecRetry == Init /\ [][NextRetry]_vars

\* Two users, the runs of the polling callback one after another.
NextCycle ==
  \/ \E o \in Owners : CreateWallet(o, "k1")
  \/ NoTickInFlight /\ TimerFire(MaxTimerFires)
  \/ PollStep

SpecCycle == Init /\ [][NextCycle]_vars

\* Two users, the runs of the polling callback one after another, and the
\* signals of shutdown that arrive while a run is in flight.
NextShutdown ==
  \/ \E o \in Owners : CreateWallet(o, "k1")
  \/ NoTickInFlight /\ TimerFire(MaxTimerFires)
  \/ PollStep
  \/ ~NoTickInFlight /\ Signal

SpecShutdown == Init /\ [][NextShutdown]_vars

\* One user: the runs of the polling callback one after another, every call of
\* theirs succeeding, and the faucet handlers of the user.
NextRepeat ==
  \/ CreateWallet(1, "k1")
  \/ FaucetStart(1, MaxFaucetRequests)
  \/ \E r \in ReqIds, outcome \in AirdropOutcomes : AirdropAttempt(r, outcome)
  \/ NoTickInFlight /\ TimerFire(MaxTimerFires)
  \/ \E t \in TickIds, b \in Balances : PollBalance(t, "ok", b)
  \/ \E t \in TickIds, p \in PositionLists : PollPositions(t, "ok", p)
  \/ \E t \in TickIds, s \in SignatureLists : PollSignatures(t, "ok", s)
  \/ \E t \in TickIds : PollNotify(t, "ok")

SpecRepeat == Init /\ [][NextRepeat]_vars

\* Two users, a faucet handler (of the first) or a run of the polling callback
\* at a time; every remote call that is awaited returns or fails in the end.
NextLive ==
  \/ \E o \in Owners : CreateWallet(o, "k1")
  \/ NoRequestInFlight /\ NoTickInFlight /\ FaucetStart(1, MaxFaucetRequests)
  \/ \E r \in ReqIds, outcome \in AirdropOutcomes : AirdropAttempt(r, outcome)
  \/ NoRequestInFlight /\ NoTickInFlight /\ TimerFire(MaxTimerFires)
  \/ PollStep

RemoteCallsEnd ==
  /\ \A r \in ReqIds :
       WF_vars(\E outcome \in AirdropOutcomes : AirdropAttempt(r, outcome))
  /\ \A t \in TickIds :
       WF_vars(\/ \E outcome \in FetchOutcomes, b \in Balances : PollBalance(t, outcome, b)
               \/ \E outcome \in FetchOutcomes, p \in PositionLists : PollPositions(t, outcome, p)
               \/ \E outcome \in FetchOutcomes, q \in SignatureLists : PollSignatures(t, outcome, q)
               \/ \E outcome \in FetchOutcomes : PollNotify(t, outcome))

SpecLive == Init /\ [][NextLive]_vars /\ RemoteCallsEnd

\* Two users and every kind of operation, one at a time: create, import, the
\* text messages, the other handlers, the faucet handler and the polling
\* callback, the remote services answering the same whenever they answer.
Quiet == NoRequestInFlight /\ NoTickInFlight

\* A key, a command, and a short text that is no command.
OpsTexts ==
  {KeyText("k2"), Text(10, FALSE, TRUE, FALSE, 0, NoKeypair),
   Text(5, FALSE, FALSE, FALSE, 0, NoKeypair)}

NextOps ==
  \/ \E o \in Owners : Quiet /\ CreateWallet(o, "k1")
  \/ \E o \in Owners : Quiet /\ ImportWallet(o)
  \/ \E o \in Owners, text \in OpsTexts, outcome \in FetchOutcomes :
       Quiet /\ TextMessage(o, text, outcome)
  \/ \E o \in Owners, h \in Handlers, outcome \in FetchOutcomes :
       Quiet /\ Handler(o, h, outcome)
  \/ Quiet /\ FaucetStart(1, MaxFaucetRequests)
  \/ \E r \in ReqIds, outcome \in AirdropOutcomes : AirdropAttempt(r, outcome)
  \/ Quiet /\ TimerFire(MaxRaceTimerFires)
  \/ \E t \in TickIds, outcome \in FetchOutcomes :
       \/ PollBalance(t, outcome, 2 * LamportsPerSol)
       \/ PollPositions(t, outcome, <<MockPosition>>)
       \/ PollSignatures(t, outcome, <<"sigA">>)
       \/ PollNotify(t, outcome)

SpecOps == Init /\ [][NextOps]_vars

\* The rate limit at the millisecond: one user whose airdrop, requested at the
\* first instant, has succeeded, and who asks again after some time, around
\* every minute of the hour that follows.
ElapsedMs ==
  {m * 60000 + d : m \in 0..59, d \in {0, 1, 59999}} \cup {hourlyLimitSeconds * 1000}

InitLimited ==
  /\ wallets = [o \in Owners |-> IF o = 1 THEN GeneratedWallet(NoWallet, "k1") ELSE NoWallet]
  /\ sessionWallet = wallets
  /\ waitingForWalletImport = [o \in Owners |-> FALSE]
  /\ states = [o \in Owners |->
                 IF o = 1 THEN FaucetWrite(FaucetInitialState, Epoch) ELSE NoState]
  /\ clock \in {Epoch + e : e \in ElapsedMs}
  /\ reqs = [r \in ReqIds |-> IdleReq]
  /\ ticks = [t \in TickIds |-> IdleTick]
  /\ started = 1
  /\ fired = 0
  /\ stopped = FALSE
  /\ dlmm = FALSE
  /\ airdrops = [o \in Owners |-> IF o = 1 THEN <<Epoch>> ELSE <<>>]
  /\ cycles = [o \in Owners |-> <<>>]
  /\ ev = NoEvent

NextLimited ==
  \/ FaucetStart(1, MaxFaucetRequests)
  \/ \E r \in ReqIds, outcome \in AirdropOutcomes : AirdropAttempt(r, outcome)

SpecLimited == InitLimited /\ [][NextLimited]_vars

\* Two users: the runs of the polling callback against each other.
NextPoll ==
  \/ \E o \in Owners : CreateWallet(o, "k1")
  \/ TimerFire(MaxTimerFires)
  \/ PollStep

SpecPoll == Init /\ [][NextPoll]_vars

(***************************************************************************)
(* Terms of the claims                                                     *)
(***************************************************************************)
Window == hourlyLimitSeconds * 1000

FetchFailures == {"balance_failed", "positions_failed", "signatures_failed"}

\* Some dimension of the fetched values differs from the snapshot: the balance
\* at 4 decimal places, the positions without their fees, a signature not seen.
AnyChange(state, balance, positions, signatures) ==
  \/ ToFixed4(balance) # ToFixed4(state.lastBalance)
  \/ Projection(positions) # Projection(state.lastPositions)
  \/ SeqRange(signatures) \ SeqRange(state.lastSignatures) # {}

\* The airdrop calls of a handler that has tried primary and fallback this often.
CallsMade(primary, fallback) ==
  [i \in 1..(primary + fallback) |-> IF i <= primary THEN "primary" ELSE "fallback"]

(***************************************************************************)
(* The faucet                                                              *)
(***************************************************************************)
\* C1: with every airdrop call succeeding, no owner obtains two successful
\* airdrops whose request times are less than 3600 s apart, whatever the
\* interleaving of the faucet handlers and the polling callback.
C1_AirdropsOneWindowApart ==
  \A o \in Owners : \A i, j \in 1..Len(airdrops[o]) :
    i < j => \/ airdrops[o][j] - airdrops[o][i] >= Window
             \/ airdrops[o][i] - airdrops[o][j] >= Window

\* C2: with the faucet handlers of an owner running one after another, a
\* request made less than 3600 s after a successful request of the owner is
\* rejected: it never gets to an airdrop call.
C2_RequestWithinWindowRejected ==
  \A r \in ReqIds :
    reqs[r].pc # "idle" =>
      \A i \in 1..Len(airdrops[reqs[r].owner]) :
        reqs[r].now - airdrops[reqs[r].owner][i] >= Window

\* C3: when the last attempt on the fallback fails after every attempt on the
\* primary and on the fallback has failed, the handler ends in an error and
\* stores nothing: lastFaucetTime is what it was, and unless another handler
\* of the owner has stored a success since, a request made now is not
\* rate-limited.
C3_FailedAirdropKeepsWindow ==
  [][\A r \in ReqIds :
       (/\ reqs[r].calls = CallsMade(retries, retries - 1)
        /\ \E e \in AirdropOutcomes \ {"ok"} : AirdropAttempt(r, e))
       => LET o == reqs[r].owner
          IN /\ ev'.kind = "faucet_error" /\ ev'.id = r
             /\ reqs'[r].pc = "idle"
             /\ states' = states
             /\ airdrops' = airdrops
             /\ states[o].lastFaucetTime = reqs[r].state.lastFaucetTime
                  => ~RateLimited(states'[o], clock')]_vars

C3_Witness ==
  /\ ev.kind = "faucet_error"
  /\ airdrops[ev.owner] = <<>>
  /\ states[ev.owner].lastFaucetTime = 0
  /\ ~RateLimited(states[ev.owner], clock)

\* C4: every airdrop call on the fallback comes after exactly 3 failed calls on
\* the primary, no call on the primary comes after a call on the fallback, and
\* when the first call on the fallback succeeds the handler ends with the
\* signature of that call.
C4_FallbackAfterPrimary ==
  [][\A r \in ReqIds : \A outcome \in AirdropOutcomes :
       AirdropAttempt(r, outcome)
       => LET q == reqs[r]
          IN /\ q.pc = "primary" =>
                  \E n \in 0..(retries - 1) : q.calls = CallsMade(n, 0)
             /\ q.pc = "fallback" =>
                  \E n \in 0..(retries - 1) : q.calls = CallsMade(retries, n)
             /\ (q.calls = CallsMade(retries, 0) /\ outcome = "ok") =>
                  /\ q.pc = "fallback"
                  /\ ev'.kind = "faucet_ok" /\ ev'.id = r
                  /\ ev'.sig = <<"fallback", 1>>]_vars

C4_Witness ==
  /\ ev.kind = "faucet_ok"
  /\ ev.sig = <<"fallback", 1>>
  /\ states[ev.owner].lastFaucetTime # 0

\* C8: the writes to one owner's state keep what the other writer has stored:
\* the update of the polling callback keeps the lastFaucetTime that is stored,
\* and the success of the faucet handler keeps the balance, the positions and
\* the signatures that are stored.
C8_WritesKeepEachOther ==
  [][\A o \in Owners :
       /\ (ev'.kind = "cycle_updated" /\ ev'.owner = o) =>
            states'[o].lastFaucetTime = states[o].lastFaucetTime
       /\ (ev'.kind = "faucet_ok" /\ ev'.owner = o) =>
            Snapshot(states'[o]) = Snapshot(states[o])]_vars

(***************************************************************************)
(* The polling callback                                                    *)
(***************************************************************************)
\* C5: when a remote call of the polling callback fails for an owner (after
\* its retries), or the notification fails, the callback goes on with the next
\* owner of its iteration, and returns only after the last one; the timer is
\* left as it was.
C5_FailureStaysInLoop ==
  [][\A t \in TickIds :
       (ev'.id = t /\ ev'.kind \in FetchFailures \cup {"notify_failed"})
       => /\ ticks[t].pc # "idle"
          /\ ev'.owner = ticks[t].owners[ticks[t].idx]
          /\ IF ticks[t].idx < Len(ticks[t].owners)
               THEN /\ ticks'[t].pc = "bal"
                    /\ ticks'[t].idx = ticks[t].idx + 1
                    /\ ticks'[t].owners = ticks[t].owners
               ELSE ticks'[t].pc = "idle"
          /\ fired' = fired]_vars

C5_Witness ==
  /\ ev.kind = "balance_failed"
  /\ ev.owner = 1
  /\ ticks[ev.id].pc = "bal"
  /\ ticks[ev.id].owners = <<1, 2>>
  /\ ticks[ev.id].idx = 2

\* C6: a cycle in which a fetch fails for an owner (after its retries) sends no
\* notification to that owner and writes nothing to the owner's stored state:
\* no step of the cycle before the failure, nor the failing step.
C6_FailedFetchSkipsOwner ==
  [][\A t \in TickIds :
       /\ (ev'.id = t /\ ev'.kind \in FetchFailures) =>
            /\ states'[ev'.owner] = states[ev'.owner]
            /\ ticks[t].sent = 0
            /\ ev'.sent = 0
       /\ (/\ ticks[t].pc \in {"bal", "pos", "sig"}
           /\ ticks'[t] # ticks[t]
           /\ ticks'[t].pc \in {"bal", "pos", "sig"}
           /\ ticks'[t].idx = ticks[t].idx) =>
            /\ states' = states
            /\ ticks'[t].sent = 0]_vars

C6_Witness ==
  /\ ev.kind = "signatures_failed"
  /\ ev.sent = 0
  /\ Snapshot(states[ev.owner]) = Snapshot(PollInitialState)

\* C7: at most one run of the polling callback is in progress at any time.
C7_OneTickAtATime ==
  Cardinality({t \in TickIds : ticks[t].pc # "idle"}) <= 1

\* C9: in a cycle whose three fetches succeed for an owner, sendMessage is
\* called once if the fetched values differ from the snapshot the cycle read
\* (balance, positions or signatures), and is not called if they do not.
C9_NotifiedOnceIffChanged ==
  [][\A t \in TickIds :
       /\ \A s \in SignatureLists :
            PollSignatures(t, "ok", s) =>
              /\ ticks[t].sent = 0
              /\ IF AnyChange(ticks[t].state, ticks[t].balance, ticks[t].positions, s)
                   THEN /\ ticks'[t].pc = "notify"
                        /\ ticks'[t].idx = ticks[t].idx
                        /\ ticks'[t].sent = 1
                   ELSE /\ ev'.kind = "cycle_updated" /\ ev'.id = t
                        /\ ev'.sent = 0
       /\ \A outcome \in FetchOutcomes :
            PollNotify(t, outcome) =>
              /\ ticks[t].sent = 1
              /\ ev'.kind \in {"cycle_updated", "notify_failed"} /\ ev'.id = t
              /\ ev'.sent = 1]_vars

C9_Witness ==
  /\ ev.kind = "cycle_updated"
  /\ ev.sent = 1
  /\ Snapshot(states[ev.owner]) # Snapshot(PollInitialState)

\* C10, as claimed: in a cycle whose three fetches succeed for an owner, the
\* owner's stored snapshot at the end of the owner's processing is the fetched
\* balance, positions and signatures, whatever the outcome of the notification.
C10_StoredWhateverNotification ==
  [][\A t \in TickIds :
       LET tk == ticks[t]
           o == tk.owners[tk.idx]
       IN /\ \A s \in SignatureLists :
               (PollSignatures(t, "ok", s) /\ ticks'[t].pc # "notify") =>
                 Snapshot(states'[o]) = <<tk.balance, tk.positions, s>>
          /\ \A outcome \in FetchOutcomes :
               PollNotify(t, outcome) =>
                 Snapshot(states'[o]) = <<tk.balance, tk.positions, tk.signatures>>]_vars

\* C10, amended: in a cycle whose three fetches succeed for an owner, the
\* owner's stored snapshot at the end of the owner's processing is the fetched
\* balance, positions and signatures, whether or not anything changed, when no
\* notification was due or sendMessage returned; when sendMessage throws, the
\* owner's stored state is left as it was.
C10_StoredAfterNotification ==
  [][\A t \in TickIds :
       LET tk == ticks[t]
           o == tk.owners[tk.idx]
       IN /\ \A s \in SignatureLists :
               (PollSignatures(t, "ok", s) /\ ticks'[t].pc # "notify") =>
                 Snapshot(states'[o]) = <<tk.balance, tk.positions, s>>
          /\ PollNotify(t, "ok") =>
               Snapshot(states'[o]) = <<tk.balance, tk.positions, tk.signatures>>
          /\ PollNotify(t, "err") =>
               /\ states'[o] = states[o]
               /\ ev'.kind = "notify_failed"]_vars

C10_Witness ==
  /\ ev.kind = "cycle_updated"
  /\ ev.sent = 0
  /\ states[ev.owner].lastSignatures = <<"sigA">>

AlertHandedOver(t) ==
  IF ticks'[t].pc = "notify" THEN SeqRange(ticks'[t].alert) ELSE {}

\* The ordered list of (pool, lowerBin, upperBin, liquidity) of some positions.
Tuples(positions) ==
  [i \in 1..Len(positions) |->
     <<positions[i].pool, positions[i].lowerBin, positions[i].upperBin,
       positions[i].liquidity>>]

\* A balance in lamports, rounded to 4 decimal places of a SOL: the number of
\* ten-thousandths nearest to it.
Round4(lamports) ==
  CHOOSE n \in {lamports \div 100000, lamports \div 100000 + 1} :
    /\ lamports - n * 100000 < 50000
    /\ n * 100000 - lamports <= 50000

\* The strings of a list that are not in another.
NotIn(new, old) ==
  {new[i] : i \in {k \in 1..Len(new) : \A j \in 1..Len(old) : new[k] # old[j]}}

\* C12: when the fetched balance, positions and signatures are equal to those
\* of the snapshot the cycle compares them with, no alert is produced: the
\* cycle ends with the update, and nothing is handed to sendMessage.
C12_EqualSnapshotsNoAlert ==
  [][\A t \in TickIds : \A s \in DetectSignatureLists :
       (/\ PollSignatures(t, "ok", s)
        /\ <<ticks[t].balance, ticks[t].positions, s>> = Snapshot(ticks[t].state))
       => /\ AlertHandedOver(t) = {}
          /\ ticks'[t].pc # "notify"
          /\ ev'.kind = "cycle_updated" /\ ev'.id = t
          /\ ev'.sent = 0]_vars

C12_Witness ==
  /\ ev.kind = "cycle_updated"
  /\ ev.sent = 0
  /\ ev.old = Snapshot(states[ev.owner])
  /\ ev.old = <<1000040000, <<MockPosition, OtherPool>>, <<"d", "a", "b">> >>

\* C13: the alert has the line for positions exactly when the ordered list of
\* (pool, lowerBin, upperBin, liquidity) of the fetched positions differs from
\* that of the stored ones.
C13_PositionsChangedIffTuplesDiffer ==
  [][\A t \in TickIds : \A s \in DetectSignatureLists :
       PollSignatures(t, "ok", s)
       => ("positions" \in AlertHandedOver(t)
             <=> Tuples(ticks[t].positions) # Tuples(ticks[t].state.lastPositions))]_vars

\* A change of the fees alone, in a cycle that reports another change.
C13_Witness ==
  \E t \in TickIds :
    /\ ticks[t].pc = "notify"
    /\ ticks[t].state.lastPositions = <<MockPosition>>
    /\ ticks[t].positions = <<OtherFees>>
    /\ ticks[t].alert = <<"balance">>

\* C14: the alert has the line for signatures exactly when some fetched
\* signature is not in the stored list; with [a,b,c] stored and [d,a,b]
\* fetched, d is the one that is not.
C14_SignatureAlertIffNewSignature ==
  [][\A t \in TickIds : \A s \in DetectSignatureLists :
       PollSignatures(t, "ok", s)
       => LET old == ticks[t].state.lastSignatures
          IN /\ "signatures" \in AlertHandedOver(t) <=> NotIn(s, old) # {}
             /\ (old = <<"a", "b", "c">> /\ s = <<"d", "a", "b">>) =>
                  /\ NotIn(s, old) = {"d"}
                  /\ "signatures" \in AlertHandedOver(t)]_vars

C14_Witness ==
  \E t \in TickIds :
    /\ ticks[t].pc = "notify"
    /\ ticks[t].state.lastSignatures = <<"a", "b", "c">>
    /\ ticks[t].signatures = <<"d", "a", "b">>
    /\ ticks[t].alert = <<"signatures">>

\* C15: the alert has the line for the balance exactly when the stored and the
\* fetched balance differ after each is rounded to 4 decimal places.
C15_BalanceChangedIffRoundedDiffer ==
  [][\A t \in TickIds : \A s \in DetectSignatureLists :
       PollSignatures(t, "ok", s)
       => ("balance" \in AlertHandedOver(t)
             <=> Round4(ticks[t].balance) # Round4(ticks[t].state.lastBalance))]_vars

\* 1.000041 stored and 1.000044 fetched: no alert, and the update.
C15_Witness ==
  /\ ev.kind = "cycle_updated"
  /\ ev.sent = 0
  /\ ev.old[1] = 1000041000
  /\ states[ev.owner].lastBalance = 1000044000

(***************************************************************************)
(* The retries                                                             *)
(***************************************************************************)
\* C16: when the confirmation of a submitted airdrop reports an on-chain
\* error, the handler ends with that error: no further airdrop attempt is
\* made, on the same endpoint or on the fallback.
C16_ConfirmationErrorNotRetried ==
  [][\A r \in ReqIds :
       AirdropAttempt(r, "txerr")
       => /\ reqs'[r].pc = "idle"
          /\ ev'.kind = "faucet_error" /\ ev'.id = r
          /\ ev'.err = "txerr"]_vars

\* The number of calls in a log that went to an endpoint.
CallsOn(calls, endpoint) ==
  Cardinality({i \in 1..Len(calls) : calls[i] = endpoint})

\* C17: one run of requestAirdropWithRetry makes at most 3 calls on its
\* connection; its k-th call follows k - 1 failed ones; a successful call ends
\* it with the signature of that call and no further call; a failed call
\* before the 3rd is followed by another on the same connection; the failure
\* of the 3rd ends it with the error of that call (which on the primary the
\* handler answers with the fallback, and on the fallback reaches the user).
C17_RetryBudget ==
  [][\A r \in ReqIds : \A outcome \in AirdropOutcomes :
       AirdropAttempt(r, outcome)
       => LET q == reqs[r]
          IN /\ q.attempt \in 1..retries
             /\ CallsOn(q.calls, q.pc) = q.attempt - 1
             /\ outcome = "ok" =>
                  /\ ev'.kind = "faucet_ok" /\ ev'.id = r
                  /\ ev'.sig = <<q.pc, q.attempt>>
                  /\ reqs'[r].pc = "idle"
             /\ (outcome # "ok" /\ q.attempt < retries) =>
                  /\ reqs'[r].pc = q.pc
                  /\ reqs'[r].attempt = q.attempt + 1
             /\ (outcome # "ok" /\ q.attempt = retries /\ q.pc = "primary") =>
                  /\ reqs'[r].pc = "fallback"
                  /\ reqs'[r].attempt = 1
             /\ (outcome # "ok" /\ q.attempt = retries /\ q.pc = "fallback") =>
                  /\ ev'.kind = "faucet_error" /\ ev'.id = r
                  /\ ev'.err = outcome
                  /\ reqs'[r].pc = "idle"]_vars

C17_Witness ==
  /\ ev.kind = "faucet_ok"
  /\ ev.sig = <<"primary", retries>>
  /\ reqs[ev.id].pc = "idle"
  /\ Len(airdrops[ev.owner]) = 1

\* C18: the handler sleeps delayMs * 2^(k-1) after the failed airdrop attempt
\* k < 3 of a connection (2000 ms after the 1st, 4000 ms after the 2nd) and
\* does not sleep after the 3rd, nor after a success; the polling callback
\* sleeps 2000 ms after a failed getBalance or getSignaturesForAddress attempt
\* that is not the last, whichever attempt it is.
C18_Waits ==
  [][\A r \in ReqIds : \A t \in TickIds :
       /\ \A outcome \in AirdropOutcomes :
            AirdropAttempt(r, outcome)
            => LET k == reqs[r].attempt
               IN /\ (outcome # "ok" /\ k = 1) => reqs'[r].wait = 2000
                  /\ (outcome # "ok" /\ k = 2) => reqs'[r].wait = 4000
                  /\ (outcome # "ok" /\ k < retries) =>
                       reqs'[r].wait = delayMs * 2 ^ (k - 1)
                  /\ (outcome = "ok" \/ k = retries) => reqs'[r].wait = 0
       /\ \A b \in Balances :
            PollBalance(t, "err", b)
            => IF ticks[t].attempt < PollAttempts - 1
                 THEN /\ ticks'[t].pc = "bal"
                      /\ ticks'[t].wait = 2000
                 ELSE ticks'[t].wait = 0
       /\ \A s \in SignatureLists :
            PollSignatures(t, "err", s)
            => IF ticks[t].attempt < PollAttempts - 1
                 THEN /\ ticks'[t].pc = "sig"
                      /\ ticks'[t].wait = 2000
                 ELSE ticks'[t].wait = 0
       /\ \A outcome \in FetchOutcomes : \A b \in Balances :
            \A p \in PositionLists : \A s \in SignatureLists :
              (\/ PollBalance(t, "ok", b)
               \/ PollPositions(t, outcome, p)
               \/ PollSignatures(t, "ok", s)
               \/ PollNotify(t, outcome)) => ticks'[t].wait = 0]_vars

\* The second sleep of a handler on the fallback, while none is left of the
\* polling callback.
C18_Witness ==
  \E r \in ReqIds :
    /\ reqs[r].pc = "fallback"
    /\ reqs[r].attempt = retries
    /\ reqs[r].wait = 4000
    /\ fired > 0

\* The callback in slot t works on the same owner after the step as before,
\* and its call in flight is the one named.
StaysAt(t, pc) ==
  /\ ticks'[t].pc = pc
  /\ ticks'[t].owners = ticks[t].owners
  /\ ticks'[t].idx = ticks[t].idx

\* C19: in the cycle of one owner, every getBalance call is the 1st, 2nd or
\* 3rd of the cycle and another follows only a failed one; getPositions is
\* called once, after a getBalance call has succeeded and not otherwise;
\* getSignaturesForAddress is called after getPositions has succeeded and not
\* otherwise, every call the 1st, 2nd or 3rd, another only after a failed one;
\* no stage is entered again; and no call of the callback goes to the fallback
\* endpoint.
C19_FetchCalls ==
  [][\A t \in TickIds :
       LET tk == ticks[t]
       IN /\ \A outcome \in FetchOutcomes : \A b \in Balances :
               (tk.pc = "bal" /\ PollBalance(t, outcome, b))
               => /\ tk.attempt \in 0..2
                  /\ tk.endpoint = "primary"
                  /\ StaysAt(t, "bal") <=> (outcome = "err" /\ tk.attempt < 2)
                  /\ StaysAt(t, "bal") => ticks'[t].attempt = tk.attempt + 1
                  /\ StaysAt(t, "pos") <=> outcome = "ok"
                  /\ ~StaysAt(t, "sig") /\ ~StaysAt(t, "notify")
          /\ \A outcome \in FetchOutcomes : \A p \in PositionLists :
               (tk.pc = "pos" /\ PollPositions(t, outcome, p))
               => /\ tk.attempt = 0
                  /\ tk.endpoint = "none"
                  /\ ~StaysAt(t, "pos") /\ ~StaysAt(t, "bal") /\ ~StaysAt(t, "notify")
                  /\ StaysAt(t, "sig") <=> outcome = "ok"
                  /\ StaysAt(t, "sig") => ticks'[t].attempt = 0
          /\ \A outcome \in FetchOutcomes : \A s \in SignatureLists :
               (tk.pc = "sig" /\ PollSignatures(t, outcome, s))
               => /\ tk.attempt \in 0..2
                  /\ tk.endpoint = "primary"
                  /\ StaysAt(t, "sig") <=> (outcome = "err" /\ tk.attempt < 2)
                  /\ StaysAt(t, "sig") => ticks'[t].attempt = tk.attempt + 1
                  /\ ~StaysAt(t, "bal") /\ ~StaysAt(t, "pos")
          /\ \A outcome \in FetchOutcomes :
               (tk.pc = "notify" /\ PollNotify(t, outcome))
               => ~StaysAt(t, "bal") /\ ~StaysAt(t, "pos") /\ ~StaysAt(t, "sig")
          /\ (ticks'[t].pc = "bal" /\ ~StaysAt(t, "bal")) => ticks'[t].attempt = 0
          /\ (ticks'[t].pc = "pos" /\ tk.pc # "pos") => tk.pc = "bal" /\ StaysAt(t, "pos")
          /\ (ticks'[t].pc = "sig" /\ tk.pc # "sig") => tk.pc = "pos" /\ StaysAt(t, "sig")
          /\ ticks'[t].endpoint # "fallback"]_vars

\* The third getSignaturesForAddress call of a cycle in flight, after a balance
\* and the positions have been fetched.
C19_Witness ==
  \E t \in TickIds :
    /\ ticks[t].pc = "sig"
    /\ ticks[t].attempt = 2
    /\ ticks[t].endpoint = "primary"
    /\ ticks[t].balance = 2 * LamportsPerSol
    /\ ticks[t].positions = <<MockPosition>>

(***************************************************************************)
(* The wallets                                                             *)
(***************************************************************************)
\* The wallet record of a keypair.
RecordOf(k) == [publicKey |-> PublicKeyText[k], privateKey |-> SecretKeyText[k]]

\* C20: a message sent for an import (the session waits for one) whose text
\* decodes to a number of bytes other than 64 is answered with the error for an
\* invalid key, and the owner's wallet record is left as it was.
C20_WrongLengthRejected ==
  [][\A o \in Owners : \A text \in Texts : \A outcome \in FetchOutcomes :
       (/\ TextMessage(o, text, outcome)
        /\ waitingForWalletImport[o]
        /\ text.base58 /\ text.bytes # 64)
       => /\ ev'.kind = "import_error" /\ ev'.owner = o
          /\ ev'.err = "length"
          /\ wallets' = wallets]_vars

\* C21: a message sent for an import (the session waits for one) whose text is
\* the base58 text of a 64-byte secret key, with or without space around it,
\* stores the record of that keypair for the owner and is answered with the
\* public key when the balance call that follows returns; when the registry
\* already holds the record of that keypair for the owner, from an earlier
\* import or otherwise, the registry after the import is what it was before.
C21_ImportIdempotent ==
  [][\A o \in Owners : \A text \in Texts : \A outcome \in FetchOutcomes :
       (/\ TextMessage(o, text, outcome)
        /\ waitingForWalletImport[o]
        /\ text.base58 /\ text.bytes = 64 /\ text.key \in Keys)
       => /\ wallets'[o].publicKey = PublicKeyText[text.key]
          /\ wallets'[o].privateKey = SecretKeyText[text.key]
          /\ \A other \in Owners \ {o} : wallets'[other] = wallets[other]
          /\ outcome = "ok" => ev'.kind = "import_ok" /\ ev'.owner = o
          /\ wallets[o] = RecordOf(text.key) => wallets' = wallets]_vars

\* The import of a key of which the registry had the record already.
C21_Witness ==
  /\ ev.kind = "import_ok"
  /\ ev.old = <<RecordOf("k1")>>
  /\ wallets[ev.owner] = RecordOf("k1")
  /\ ~waitingForWalletImport[ev.owner]

\* C22: every owner has no record or one record, whose publicKey and privateKey
\* are those of one keypair; a create stores the record of the keypair
\* generated and an import that gets to its store the record of the keypair
\* imported, whatever the registry held before, and leaves the records of the
\* other owners; no other step changes the registry: the record of an owner is
\* that of the last create or import that stored one.
C22_OneWholeRecord ==
  [][/\ \A o \in Owners :
          \/ wallets'[o] = NoWallet /\ wallets[o] = NoWallet
          \/ \E k \in Keys : /\ wallets'[o].publicKey = PublicKeyText[k]
                              /\ wallets'[o].privateKey = SecretKeyText[k]
     /\ \A o \in Owners : \A k \in Keys :
          CreateWallet(o, k) =>
            /\ wallets'[o].publicKey = PublicKeyText[k]
            /\ wallets'[o].privateKey = SecretKeyText[k]
            /\ \A other \in Owners \ {o} : wallets'[other] = wallets[other]
     /\ \A o \in Owners : \A text \in Texts : \A outcome \in FetchOutcomes :
          TextMessage(o, text, outcome) =>
            IF ev'.kind = "import_ok" \/ (ev'.kind = "import_error" /\ ev'.err = "balance")
              THEN /\ wallets'[o].publicKey = PublicKeyText[text.key]
                   /\ wallets'[o].privateKey = SecretKeyText[text.key]
                   /\ \A other \in Owners \ {o} : wallets'[other] = wallets[other]
              ELSE wallets' = wallets
     /\ (\A o \in Owners : ImportWallet(o) => wallets' = wallets)]_vars

\* The record of an owner replaced by that of another keypair, while the other
\* owner keeps the first.
C22_Witness ==
  /\ ev.kind = "import_ok"
  /\ ev.old = <<RecordOf("k1")>>
  /\ wallets[ev.owner] = RecordOf("k2")
  /\ \E other \in Owners \ {ev.owner} : wallets[other] = RecordOf("k1")

(***************************************************************************)
(* The first cycle and the repeated cycle                                  *)
(***************************************************************************)
\* The snapshot of an owner of which nothing is known.
ZeroSnapshot == <<0, <<>>, <<>> >>

\* C23: a run of the callback that finds no stored state for an owner works
\* with the zero snapshot for that owner; and a cycle whose fetches succeed and
\* which compares them with the zero snapshot hands over no line for positions
\* when no position is fetched, no line for signatures when no signature is
\* fetched, and the line for the balance when the fetched balance, rounded to 4
\* decimal places, is not zero (and not when it is).
C23_FirstCycleAgainstZero ==
  [][\A t \in TickIds :
       /\ (/\ ticks'[t].pc = "bal"
           /\ ticks[t].pc = "idle" \/ ticks'[t].idx # ticks[t].idx
           /\ states[ticks'[t].owners[ticks'[t].idx]] = NoState)
          => /\ Snapshot(ticks'[t].state) = ZeroSnapshot
             /\ Snapshot(states'[ticks'[t].owners[ticks'[t].idx]]) = ZeroSnapshot
       /\ \A s \in DetectSignatureLists :
            (PollSignatures(t, "ok", s) /\ Snapshot(ticks[t].state) = ZeroSnapshot)
            => /\ ticks[t].positions = <<>> => "positions" \notin AlertHandedOver(t)
               /\ s = <<>> => "signatures" \notin AlertHandedOver(t)
               /\ "balance" \in AlertHandedOver(t) <=> Round4(ticks[t].balance) # 0]_vars

\* The first cycle of an owner, with a balance and nothing else: the alert has
\* the line for the balance alone.
C23_Witness ==
  \E t \in TickIds :
    /\ fired = 1
    /\ ticks[t].pc = "notify"
    /\ Snapshot(ticks[t].state) = ZeroSnapshot
    /\ ticks[t].balance = 1000040000
    /\ ticks[t].positions = <<>> /\ ticks[t].signatures = <<>>
    /\ ticks[t].alert = <<"balance">>

\* C24: when the fetches of a cycle succeed for an owner and give the balance,
\* the positions and the signatures that the owner's previous cycle has stored
\* (that cycle having succeeded, and the runs of the callback following one
\* another), the cycle sends no notification and the stored snapshot after it
\* is what the previous cycle stored.
C24_RepeatedCycleSilent ==
  [][\A t \in TickIds : \A s \in SignatureLists :
       LET tk == ticks[t]
           o == tk.owners[tk.idx]
       IN (PollSignatures(t, "ok", s) /\ cycles[o] = <<tk.balance, tk.positions, s>>)
          => /\ ticks'[t].pc # "notify"
             /\ ev'.kind = "cycle_updated" /\ ev'.id = t
             /\ ev'.sent = 0
             /\ Snapshot(states'[o]) = cycles[o]]_vars

(***************************************************************************)
(* Termination                                                             *)
(***************************************************************************)
\* The owners that have a wallet record, each once, in some order.
EachRegisteredOnce(owners) ==
  /\ \A o \in Owners :
       wallets[o] # NoWallet <=> \E i \in 1..Len(owners) : owners[i] = o
  /\ \A i, j \in 1..Len(owners) : owners[i] = owners[j] => i = j

\* C25: with every awaited remote call returning or failing in the end, a
\* faucet handler that has started ends, after 6 airdrop calls at most, 3 on
\* the primary and 3 on the fallback; a run of the polling callback works on
\* the owners that were registered when it started, one after the other and
\* each once, and ends after the last; and a run that works on one owner gets
\* to the owner after it.
C25_Terminates ==
  /\ [][\A r \in ReqIds : \A outcome \in AirdropOutcomes :
          AirdropAttempt(r, outcome)
          => /\ Len(reqs[r].calls) + 1 <= 6
             /\ CallsOn(Append(reqs[r].calls, reqs[r].pc), "primary") <= 3
             /\ CallsOn(Append(reqs[r].calls, reqs[r].pc), "fallback") <= 3]_vars
  /\ [][\A t \in TickIds :
          /\ (ticks[t].pc = "idle" /\ ticks'[t].pc # "idle") =>
               /\ EachRegisteredOnce(ticks'[t].owners)
               /\ ticks'[t].idx = 1
          /\ (fired' # fired /\ ticks' = ticks) =>
               \A o \in Owners : wallets[o] = NoWallet
          /\ (ticks[t].pc # "idle" /\ ticks'[t].pc # "idle") =>
               /\ ticks'[t].owners = ticks[t].owners
               /\ ticks'[t].idx \in {ticks[t].idx, ticks[t].idx + 1}
          /\ (ticks[t].pc # "idle" /\ ticks'[t].pc = "idle") =>
               ticks[t].idx = Len(ticks[t].owners)]_vars
  /\ \A r \in ReqIds : (reqs[r].pc # "idle") ~> (reqs[r].pc = "idle")
  /\ \A t \in TickIds : (ticks[t].pc # "idle") ~> (ticks[t].pc = "idle")
  /\ \A t \in TickIds :
       (ticks[t].pc # "idle" /\ ticks[t].idx = 1 /\ Len(ticks[t].owners) = 2)
         ~> (ticks[t].pc # "idle" /\ ticks[t].idx = 2)

\* The sixth airdrop call of a handler in flight, after a run of the callback
\* has worked on two owners.
C25_Witness ==
  /\ \E r \in ReqIds : /\ reqs[r].pc = "fallback"
                        /\ reqs[r].attempt = 3
                        /\ Len(reqs[r].calls) = 5
  /\ \A o \in Owners : cycles[o] # <<>>

(***************************************************************************)
(* The time of the faucet                                                  *)
(***************************************************************************)
\* C26: when an airdrop call of a faucet handler succeeds, the handler ends with
\* the signature of that call, the owner's lastFaucetTime is the time at which
\* the call succeeded, and a request of the owner is rate-limited at every time
\* less than 3600 s after that.
C26_StampedAtSuccess ==
  [][\A r \in ReqIds :
       AirdropAttempt(r, "ok")
       => LET o == reqs[r].owner
          IN /\ ev'.kind = "faucet_ok" /\ ev'.id = r
             /\ ev'.sig = <<reqs[r].pc, reqs[r].attempt>>
             /\ states'[o].lastFaucetTime = clock
             /\ \A n \in 0..1 :
                  RateLimited(states'[o], clock + n * ClockStep)]_vars

(***************************************************************************)
(* The registry and the states under the operations                        *)
(***************************************************************************)
\* C27: no step of the process takes the wallet record of an owner away:
\* an owner that has a record before a create, an import or another text
\* message, a handler, a step of the faucet handler or a step of the polling
\* callback has one after it.
C27_RegistryNeverShrinks ==
  [][\A o \in Owners : wallets[o] # NoWallet => wallets'[o] # NoWallet]_vars

\* Both owners registered, one with an imported key in place of the created
\* one, after a faucet request and a run of the callback.
C27_Witness ==
  /\ wallets[1] = RecordOf("k1")
  /\ wallets[2] = RecordOf("k2")
  /\ airdrops[1] # <<>>
  /\ cycles[2] # <<>>

\* What a step reports in which a handler other than create, import and the
\* faucet replies, or the text handler to a message that is no import.
HandlerReplies == {"handler_ok", "handler_error", "wallet_missing", "text_unanswered"}

\* C28: a step in which one of the handlers for positions, rebalance, the wallet
\* overview, the pools, the menu, add-liquidity and remove-liquidity replies
\* leaves the registry and the states as they are, whether its remote calls
\* have succeeded or failed, and so does a text message that is a command; a
\* step that changes the registry is a
\* create or a text message taken as an import, and a step that changes the
\* states is a step of the faucet handler or of the polling callback.
C28_OnlyWritersWrite ==
  [][/\ ev'.kind \in HandlerReplies => wallets' = wallets /\ states' = states
     /\ wallets' # wallets =>
          \/ \E o \in Owners, k \in Keys : CreateWallet(o, k)
          \/ \E o \in Owners, text \in OpsTexts, outcome \in FetchOutcomes :
               TakenAsImport(o, text) /\ TextMessage(o, text, outcome)
     /\ states' # states =>
          \/ \E o \in Owners : FaucetStart(o, MaxFaucetRequests)
          \/ \E r \in ReqIds, outcome \in AirdropOutcomes : AirdropAttempt(r, outcome)
          \/ TimerFire(MaxRaceTimerFires)
          \/ PollStep]_vars

\* A handler whose remote call has failed, for an owner with a wallet record
\* and a stored snapshot.
C28_Witness ==
  /\ ev.kind = "handler_error"
  /\ wallets[ev.owner] # NoWallet
  /\ states[ev.owner] # NoState
  /\ Snapshot(states[ev.owner]) = <<2 * LamportsPerSol, <<MockPosition>>, <<"sigA">> >>

(***************************************************************************)
(* The reply to a rate-limited request                                     *)
(***************************************************************************)
\* The least number of whole minutes that is no less than a time in ms.
MinutesUp(ms) == CHOOSE m \in 0..61 : m * 60000 >= ms /\ (m - 1) * 60000 < ms

\* The arithmetic of the reply, from the stored time: a request made elapsed
\* ms after the owner's lastFaucetTime, 0 <= elapsed < 3600 s, is rate-limited,
\* and its reply names the least whole number of minutes that is no less than
\* 3600 s minus elapsed, a number from 1 to 60; a request made 3600 s after is
\* not limited.
C29_RemainingMinutes ==
  [][FaucetStart(1, MaxFaucetRequests)
     => LET elapsed == clock - states[1].lastFaucetTime
        IN /\ elapsed >= 0
           /\ IF elapsed < 3600 * 1000
                THEN /\ ev'.kind = "faucet_limited"
                     /\ ev'.minutes = MinutesUp(3600 * 1000 - elapsed)
                     /\ ev'.minutes \in 1..60
                     /\ states' = states
                ELSE ev'.kind # "faucet_limited"]_vars

\* One millisecond before the end of the window: 1 minute.
C29_Witness ==
  /\ ev.kind = "faucet_limited"
  /\ clock - states[1].lastFaucetTime = 3600 * 1000 - 1
  /\ ev.minutes = 1

\* C29: a rate-limited request made elapsed seconds after the owner's last
\* successful airdrop reports ceil((3600 - elapsed) / 60) minutes.  Stated for
\* the request that follows the success at once (elapsed = 0, 60 minutes).
C29_WaitFromSuccess ==
  [][\A o \in Owners :
       (/\ ev.kind = "faucet_ok" /\ ev.owner = o
        /\ FaucetStart(o, MaxFaucetRequests)
        /\ ev'.kind = "faucet_limited")
       => ev'.minutes = MinutesUp(3600 * 1000 - 0)]_vars

(***************************************************************************)
(* Shutdown                                                                *)
(***************************************************************************)
\* C30: a signal of shutdown that arrives during a run of the polling
\* callback leaves the run and the stored states as they are (the run goes on
\* to its end), and once the signal has arrived the timer starts no further
\* run.
C30_GracefulDrain ==
  [][/\ Signal => ticks' = ticks /\ states' = states
     /\ stopped => fired' = fired]_vars

(***************************************************************************)
(* The commands                                                            *)
(***************************************************************************)
\* C31: a command sent as a text message by a user who has a wallet, and not
\* taken as an import, reaches its command handler, which replies.
C31_CommandReachesHandler ==
  [][\A o \in Owners, text \in Texts, outcome \in FetchOutcomes :
       (/\ TextMessage(o, text, outcome)
        /\ text.slash
        /\ ~TakenAsImport(o, text)
        /\ LoadWallet(o) # NoWallet)
       => ev'.kind \in {"handler_ok", "handler_error"}]_vars

(***************************************************************************)
(* The stored time of the faucet                                           *)
(***************************************************************************)
\* C32: no step makes the lastFaucetTime of an owner that holds a time less
\* than it was (nor takes the time away).
C32_LastFaucetTimeMonotone ==
  [][\A o \in Owners :
       (states[o] # NoState /\ LastFaucetOrZero(states[o]) # 0)
       => /\ states'[o] # NoState
          /\ LastFaucetOrZero(states'[o]) >= LastFaucetOrZero(states[o])]_vars

(***************************************************************************)
(* The import that fails                                                   *)
(***************************************************************************)
\* C33: when the text handler answers an import with an error, the registry
\* and the flag of the session are what they were before the message, and the
\* wallet of the session is the one the session came to the handler with.
C33_FailedImportNoEffect ==
  [][\A o \in Owners :
       (ev'.kind = "import_error" /\ ev'.owner = o)
       => /\ wallets' = wallets
          /\ waitingForWalletImport' = waitingForWalletImport
          /\ sessionWallet'[o] = LoadWallet(o)]_vars

(***************************************************************************)
(* The flag of the import                                                  *)
(***************************************************************************)
\* The gate but for the reply: import_wallet sets the flag of the session and
\* leaves the registry; a text message received when the flag is not set
\* leaves the registry and the flag; a text message that stores a record was
\* received with the flag set and clears it; an import that fails before it
\* stores leaves the flag set and the registry as it was; the flags and the
\* records of the other owners are left alone.
ImportGateOfStores ==
  [][/\ \A o \in Owners :
          ImportWallet(o) => waitingForWalletImport'[o] /\ wallets' = wallets
     /\ \A o \in Owners :
          (ev'.owner = o /\ ev'.kind \in {"import_ok", "import_error",
                                          "wallet_missing", "text_unanswered"}
           /\ \E text \in Texts, outcome \in FetchOutcomes : TextMessage(o, text, outcome))
          => /\ ~waitingForWalletImport[o]
                  => wallets' = wallets /\ ~waitingForWalletImport'[o]
             /\ wallets'[o] # wallets[o]
                  => waitingForWalletImport[o] /\ ~waitingForWalletImport'[o]
             /\ ev'.kind = "import_ok"
                  => /\ waitingForWalletImport[o] /\ ~waitingForWalletImport'[o]
                     /\ wallets'[o] # NoWallet
             /\ (ev'.kind = "import_error" /\ ev'.err # "balance")
                  => /\ waitingForWalletImport[o] /\ waitingForWalletImport'[o]
                     /\ wallets' = wallets
             /\ \A other \in Owners \ {o} :
                  /\ waitingForWalletImport'[other] = waitingForWalletImport[other]
                  /\ wallets'[other] = wallets[other]]_vars

\* C34: a text message received when the flag of the session is not set leaves
\* the registry as it was; an import answered with the reply of success clears
\* the flag, and an import answered with an error leaves it set.
C34_ImportGate ==
  [][\A o \in Owners :
       (ev'.owner = o
        /\ \E text \in Texts, outcome \in FetchOutcomes : TextMessage(o, text, outcome))
       => /\ ~waitingForWalletImport[o] => wallets' = wallets
          /\ ev'.kind = "import_ok" => ~waitingForWalletImport'[o]
          /\ ev'.kind = "import_error" => waitingForWalletImport'[o]]_vars

(***************************************************************************)
(* The snapshot and the wallet                                             *)
(***************************************************************************)
\* C35: the stored snapshot of an owner describes the wallet registered for
\* that owner: when a create or an import puts another record in the place of
\* the owner's record, nothing having been fetched for the new wallet, the
\* owner is left with no stored state or with the zero snapshot, so that the
\* next cycle does not compare with what was recorded for the wallet before.
C35_SnapshotOfCurrentWallet ==
  [][\A o \in Owners :
       (wallets[o] # NoWallet /\ wallets'[o] # wallets[o])
       => \/ states'[o] = NoState
          \/ Snapshot(states'[o]) = ZeroSnapshot]_vars

(***************************************************************************)
(* The limit of the faucet and the wallet                                  *)
(***************************************************************************)
\* C36: a create or an import that puts another record in the place of an
\* owner's record leaves the states, lastFaucetTime with them; a request of an
\* owner who has obtained an airdrop less than 3600 s before is rate-limited
\* and makes no airdrop call, whatever wallet the owner has now; and no owner
\* obtains two airdrops less than 3600 s apart (the operations one at a time).
C36_LimitKeyedByOwner ==
  /\ [](\A o \in Owners : \A i, j \in 1..Len(airdrops[o]) :
          i < j => airdrops[o][j] - airdrops[o][i] >= hourlyLimitSeconds * 1000)
  /\ [][/\ \A o \in Owners : wallets'[o] # wallets[o] => states' = states
        /\ (/\ FaucetStart(1, MaxFaucetRequests)
            /\ \E i \in 1..Len(airdrops[1]) :
                 clock - airdrops[1][i] < hourlyLimitSeconds * 1000)
           => /\ ev'.kind = "faucet_limited"
              /\ reqs' = reqs
              /\ states' = states]_vars

\* The owner has obtained an airdrop with the created wallet and has then
\* imported another: the time of the faucet is still there.
C36_Witness ==
  /\ ev.kind = "import_ok"
  /\ ev.old = <<RecordOf("k1")>>
  /\ wallets[1] = RecordOf("k2")
  /\ airdrops[1] = <<Epoch>>
  /\ states[1].lastFaucetTime = Epoch
  /\ RateLimited(states[1], clock)

(***************************************************************************)
(* The faucet without a wallet                                             *)
(***************************************************************************)
\* C37: a faucet request of a user whose session has no wallet (the registry
\* has none to restore either) is answered with the wallet-missing reply: no
\* airdrop call is started, no state is created for the user, and the states,
\* lastFaucetTime with them, and the airdrops obtained are what they were.
C37_NoWalletNoFaucet ==
  [][\A o \in Owners :
       (FaucetStart(o, MaxFaucetRequests) /\ sessionWallet'[o] = NoWallet)
       => /\ ev'.kind = "faucet_nowallet" /\ ev'.owner = o
          /\ reqs' = reqs
          /\ states' = states
          /\ airdrops' = airdrops]_vars

\* A user without wallet has asked, while the other has obtained an airdrop:
\* the first has no state.
C37_Witness ==
  /\ ev.kind = "faucet_nowallet"
  /\ wallets[ev.owner] = NoWallet
  /\ states[ev.owner] = NoState
  /\ airdrops[3 - ev.owner] # <<>>

(***************************************************************************)
(* The initialisation of the DLMM service                                  *)
(***************************************************************************)
\* C38: the service, once initialised, stays initialised, and it becomes so
\* only in a step that calls init: a handler of positions, rebalance or
\* wallet_overview that has found a wallet, or the polling callback after a
\* balance fetched.  A call of the service fails with 'DLMM not initialized'
\* only when the service is not initialised; add_liquidity_mock, which calls
\* addLiquidity without init, is answered with that error whenever the service
\* is not initialised at its call, and with success only when it is.
C38_NotInitializedUntilInit ==
  [][/\ dlmm => dlmm'
     /\ dlmm' # dlmm
          => \/ ev'.kind \in {"handler_ok", "handler_error"}
             \/ \E t \in TickIds : ticks[t].pc = "bal" /\ ticks'[t].pc = "pos"
     /\ (\E t \in TickIds : ticks[t].pc = "bal" /\ ticks'[t].pc = "pos") => dlmm'
     /\ ev'.err = NotInitialized => ev'.kind = "handler_error" /\ ~dlmm /\ ~dlmm'
     /\ \A o \in Owners, outcome \in FetchOutcomes :
          (/\ ev'.owner = o /\ ev'.kind \in {"handler_ok", "handler_error"}
           /\ Handler(o, "add_liquidity_mock", outcome))
          => /\ ~dlmm => ev'.kind = "handler_error" /\ ev'.err = NotInitialized
             /\ ev'.kind = "handler_ok" => dlmm
             /\ dlmm' = dlmm]_vars

\* A user with a wallet has tried the test amount before any handler or run
\* of the callback has initialised the service.
C38_Witness ==
  /\ ev.kind = "handler_error"
  /\ ev.err = NotInitialized
  /\ wallets[ev.owner] # NoWallet
  /\ ~dlmm
  /\ fired = 0

====
